---- MODULE Spec2Model ----
(***************************************************************************)
(* Model of src/src/real_sense_viewer.cpp: main, printDeviceList and the   *)
(* RealSenseViewer class (run, cloudCallback, keyboardCallback,            *)
(* createStreamDirectory, savePointCloud, displaySettings).                *)
(*                                                                         *)
(* Two execution contexts run the viewer: the control context (main ->     *)
(* run, which also runs keyboardCallback from inside viewer_.spinOnce) and *)
(* the capture context (the grabber's thread, which runs cloudCallback).   *)
(* Every access to a field that both contexts touch is a step of its own,  *)
(* so that the model has every interleaving the two threads have.          *)
(***************************************************************************)
EXTENDS Integers, Sequences, FiniteSets, TLC

(* ------------------------------ bounds --------------------------------- *)
\* longest command line (arguments after argv[0])
MaxArgs == 2
\* most RealSense devices connected
MaxDevices == 1
\* most frames the capture source delivers in one run
MaxFrames == 2
\* most recording activations in one run
MaxSessions == 2
\* most keyboard events delivered in the specification that counts them
MaxEvents == 4
\* largest temporal-filter window the w key is pressed up to
MaxWindow == 4
\* largest bilateral spatial sigma the a key is pressed up to
MaxSigmaS == 6
\* the z key is pressed while the bilateral range sigma is at most this many
\* hundredths
MaxSigmaRSteps == 5

(* ------------------------- program constants --------------------------- *)
\* pcl::RealSenseGrabber::TemporalFilteringType, used as index of TF[]
RealSense_None == 0
RealSense_Median == 1
RealSense_Average == 2
\* clamp of threshold_
MaxThreshold == 15
\* constructor defaults
InitWindow == 3
InitThreshold == 6
InitSigmaS == 5
\* exit codes
ExitOk == 0
ExitOpenFailed == 1
ExitMkdirFailed == -1

VARIABLES
  \* ---- process / main ----
  argv,          \* arguments after argv[0], a sequence of tokens
  devices,       \* number of connected devices (environment)
  mainpc,        \* position of main: "args","list","open","run","exited","aborted"
  exit,          \* <<>> while running, <<code>> once the process has exited
  grabbers,      \* number of pcl::RealSenseGrabber objects instantiated so far
  out,           \* what main printed: sequence of "usage", "none", "list", "error"
  \* ---- RealSenseViewer fields ----
  window_, threshold_, temporal_filtering_, with_bilateral_,
  save_stream_, stream_id_, frame_id_,
  sigma_s_,      \* bilateral_.sigma_s_ (a float holding a whole number)
  sigma_r_,      \* bilateral_.sigma_r_, the float's exact value in units of 2^-30
  new_cloud_, last_cloud_,
  lock,          \* holder of new_cloud_mutex_: "none", "loop" or "cb"
  \* ---- the display (viewer_) ----
  stopped,       \* viewer_.wasStopped ()
  shown,         \* the cloud the display holds under the id "cloud"
  overlay,       \* the status text last rendered by displaySettings
  \* ---- the capture source (grabber_) ----
  running,       \* between grabber_.start () and grabber_.stop ()
  connected,     \* connection_ is connected
  g_filter,      \* last enableTemporalFiltering (mode, window) pushed, or <<>>
  g_threshold,   \* last setConfidenceThreshold pushed, or <<>>
  pushes,        \* setter calls made on the grabber by the current key event
  \* ---- control context ----
  lpc,           \* position of run () / keyboardCallback
  key,           \* key code of the event being handled
  l_tmp,         \* register of the control context (frame_id_ loaded for ++)
  \* ---- capture context ----
  cpc,           \* position of cloudCallback
  c_cloud,       \* the cloud argument of cloudCallback (frame number)
  c_sid, c_fid,  \* stream_id_ and frame_id_ as loaded by savePointCloud
  delivered,     \* number of frames the capture source has delivered
  \* ---- file system ----
  dirs,          \* names of the session directories created
  files,         \* write log of savePointCloud: [dir, idx, frame], the names and the stamp
  manual,        \* stamps of the clouds saved by the p key (the stamp names the file)
  \* ---- history ----
  sessions,      \* stream ids allocated by activations, in order
  latest,        \* the cloud cloudCallback assigned to the slot most recently
  k_before,      \* temporal_filtering_ before each of the last three k presses
  events         \* keyboard events delivered, in the specification that counts them

mainVars == <<argv, devices, mainpc, exit, grabbers, out>>
fieldVars == <<window_, threshold_, temporal_filtering_, with_bilateral_,
               save_stream_, stream_id_, frame_id_, sigma_s_, sigma_r_,
               new_cloud_, last_cloud_, lock>>
viewVars == <<stopped, shown, overlay>>
grabVars == <<running, connected, g_filter, g_threshold, pushes>>
loopVars == <<lpc, key, l_tmp>>
cbVars == <<cpc, c_cloud, c_sid, c_fid, delivered>>
fsVars == <<dirs, files, manual>>
histVars == <<sessions, latest, k_before, events>>
vars == <<mainVars, fieldVars, viewVars, grabVars, loopVars, cbVars, fsVars, histVars>>

(* ------------------------------ values --------------------------------- *)
\* an empty boost::shared_ptr
NullCloud == [id |-> 0, filt |-> FALSE]

\* the cloud cloudCallback stores for frame n: the frame itself, or the output
\* of bilateral_.filter on it
Cloud(n, f) == [id |-> n, filt |-> f]

\* command-line tokens
Tokens == {"--help", "-h", "--list", "-l", "--xyz", "#1"}

\* all argument lists of at most MaxArgs tokens
ArgLists == UNION {[1..n -> Tokens] : n \in 0..MaxArgs}

\* key codes: the twelve of the key table and one that is in no branch
SettingKeys == {"w", "W", "t", "T", "k", "b", "a", "A", "z", "Z"}
AllKeys == SettingKeys \cup {"p", "s", "x"}

(* ------------------------------ file names ----------------------------- *)
RECURSIVE Digits(_)
\* the decimal digits operator<< writes for an int n >= 0
Digits(n) == IF n < 10 THEN <<n>> ELSE Append(Digits(n \div 10), n % 10)

\* std::setfill ('0') << std::setw (4) << n: the digits, padded on the left
\* with zeros to four characters (a longer number is not cut)
Pad4(n) ==
  LET d == Digits(n)
      k == 4 - Len(d)
  IN  IF k <= 0 THEN d ELSE [i \in 1..4 |-> IF i <= k THEN 0 ELSE d[i - k]]

RECURSIVE NumberOf(_)
\* the number a string of digits names
NumberOf(d) ==
  IF Len(d) = 0 THEN 0
  ELSE 10 * NumberOf(SubSeq(d, 1, Len(d) - 1)) + d[Len(d)]

(* --------------------- single-precision arithmetic --------------------- *)
\* sigma_r_ is a float; its value is held exactly, as a multiple of 2^-30
\* (every float in [2^-7, 2^-2) is one).  0.01 (a double) is 10737418.24 units.
\* (float) 0.01
Float001 == 10737418
\* (float) 0.05, the value sigma_r_ has in a default-constructed
\* pcl::FastBilateralFilter
Float005 == 53687092
\* 2^-7 in units of 2^-30: below it the grid of floats is finer than one unit
FloatGridMin == 2^23

\* distance between neighbouring floats around n units
Ulp(n) == IF n < 16777216 THEN 1
          ELSE IF n < 33554432 THEN 2
          ELSE IF n < 67108864 THEN 4
          ELSE IF n < 134217728 THEN 8 ELSE 16

\* (float) (n + f/100 units), round to nearest, for n >= FloatGridMin
RoundFloat(n, f) ==
  LET u == Ulp(n)
      rem == n % u
  IN  IF 100 * rem + f > 50 * u THEN n - rem + u ELSE n - rem

\* r += 0.01 and r += -0.01 of line 274: the sum is taken in double precision
\* and converted back to float.  A difference below 2^-7 is reported as
\* FloatGridMin - 1: line 275 replaces every value that small.
FloatAdd001(r) == RoundFloat(r + 10737418, 24)
FloatSub001(r) ==
  IF r - 10737419 < FloatGridMin THEN FloatGridMin - 1
  ELSE RoundFloat(r - 10737419, 76)

\* r <= 0.01 of line 275: the float against the double 0.01
FloatLe001(r) == r <= 10737418

\* the value "%.2f" prints, in hundredths
Hundredths(r) == (r + 5368709) \div 10737418

(* --------------------------- displaySettings --------------------------- *)
\* TF[] of line 336
TF(mode) == IF mode = RealSense_None THEN "off"
            ELSE IF mode = RealSense_Median THEN "median" ELSE "average"

\* the five entries displaySettings renders from the fields it is given
\* (the framerate entry is read from the grabber and is left out)
OverlayOf(thr, mode, win, bil, ss, sr, save) ==
  [threshold |-> thr,
   temporal  |-> TF(mode),
   window    |-> IF mode = RealSense_None THEN <<>> ELSE <<win>>,
   bilateral |-> IF bil THEN <<ss, Hundredths(sr)>> ELSE <<>>,
   save      |-> save]

\* nothing has been rendered yet
NoOverlay == [threshold |-> -1, temporal |-> "", window |-> <<>>,
              bilateral |-> <<>>, save |-> FALSE]

\* displaySettings () in the current state
DisplaySettings ==
  OverlayOf(threshold_, temporal_filtering_, window_, with_bilateral_,
            sigma_s_, sigma_r_, save_stream_)

(* -------------------------------- Init --------------------------------- *)
\* The fields as the constructor (lines 131-144) leaves them; bilateral_ is
\* default-constructed and then given sigma_s_ = 5.
ViewerConstructed ==
  /\ window_ = InitWindow
  /\ threshold_ = InitThreshold
  /\ temporal_filtering_ = RealSense_None
  /\ with_bilateral_ = FALSE
  /\ save_stream_ = FALSE
  /\ stream_id_ = 0
  /\ frame_id_ = 0
  /\ sigma_s_ = InitSigmaS
  /\ sigma_r_ = Float005
  /\ new_cloud_ = NullCloud
  /\ last_cloud_ = NullCloud
  /\ lock = "none"

\* everything but the command line, the devices, the grabbers instantiated
\* and main's position
Fresh ==
  /\ ViewerConstructed
  /\ exit = <<>> /\ out = <<>>
  /\ stopped = FALSE /\ shown = NullCloud /\ overlay = NoOverlay
  /\ running = FALSE /\ connected = FALSE
  /\ g_filter = <<>> /\ g_threshold = <<>> /\ pushes = 0
  /\ key = "" /\ l_tmp = 0
  /\ cpc = "idle" /\ c_cloud = 0 /\ c_sid = 0 /\ c_fid = 0 /\ delivered = 0
  /\ dirs = {} /\ files = <<>> /\ manual = {}
  /\ sessions = <<>> /\ latest = NullCloud /\ k_before = <<>> /\ events = 0

\* the process starts in main with any command line and any number of devices
Init ==
  /\ argv \in ArgLists
  /\ devices \in 0..MaxDevices
  /\ mainpc = "args"
  /\ grabbers = 0
  /\ lpc = "init"
  /\ Fresh

(* -------------------------------- main --------------------------------- *)
\* pcl::console::find_switch
find_switch(a, s) == \E i \in 1..Len(a) : a[i] = s

WantsHelp == find_switch(argv, "--help") \/ find_switch(argv, "-h")
WantsList == find_switch(argv, "--list") \/ find_switch(argv, "-l")

\* device_id of lines 399-411; argc is Len(argv) + 1
DeviceId ==
  IF Len(argv) = 0 \/ (Len(argv) = 1 /\ find_switch(argv, "--xyz"))
  THEN "" ELSE argv[Len(argv)]

\* pcl::RealSenseGrabber (device_id) does not throw: "" is the first available
\* device, "#n" the n-th connected one, anything else a serial number (none of
\* the tokens is the serial number of a connected device)
CanOpen(id) ==
  IF id = "" THEN devices >= 1
  ELSE IF id = "#1" THEN devices >= 1
  ELSE FALSE

\* return (code) from main, or exit (code)
Terminate(code) ==
  /\ mainpc' = "exited"
  /\ exit' = <<code>>

\* lines 385-389
Main_Help ==
  /\ mainpc = "args"
  /\ WantsHelp
  /\ out' = Append(out, "usage")
  /\ Terminate(ExitOk)
  /\ UNCHANGED <<argv, devices, grabbers>>
  /\ UNCHANGED <<fieldVars, viewVars, grabVars, loopVars, cbVars, fsVars, histVars>>

\* mutant: the test of line 391 comes before the test of line 385
Main_List_IgnoresHelp ==
  /\ mainpc = "args"
  /\ WantsList
  /\ mainpc' = "list"
  /\ UNCHANGED <<argv, devices, exit, grabbers, out>>
  /\ UNCHANGED <<fieldVars, viewVars, grabVars, loopVars, cbVars, fsVars, histVars>>

\* lines 391-393: enter printDeviceList
Main_List ==
  /\ mainpc = "args"
  /\ ~WantsHelp
  /\ WantsList
  /\ mainpc' = "list"
  /\ UNCHANGED <<argv, devices, exit, grabbers, out>>
  /\ UNCHANGED <<fieldVars, viewVars, grabVars, loopVars, cbVars, fsVars, histVars>>

\* lines 105-111: one more grabber is instantiated and listed
printDeviceList_Probe ==
  /\ mainpc = "list"
  /\ grabbers < devices
  /\ grabbers' = grabbers + 1
  /\ UNCHANGED <<argv, devices, mainpc, exit, out>>
  /\ UNCHANGED <<fieldVars, viewVars, grabVars, loopVars, cbVars, fsVars, histVars>>

\* lines 112-120 and 394: the next instantiation throws, the list ends
printDeviceList_Done ==
  /\ mainpc = "list"
  /\ grabbers >= devices
  /\ out' = Append(out, IF grabbers > 0 THEN "list" ELSE "none")
  /\ Terminate(ExitOk)
  /\ UNCHANGED <<argv, devices, grabbers>>
  /\ UNCHANGED <<fieldVars, viewVars, grabVars, loopVars, cbVars, fsVars, histVars>>

\* mutant: the catch block of lines 427-431 falls through to return (0)
Main_OpenFailed_ReturnsZero ==
  /\ mainpc = "args"
  /\ ~WantsHelp /\ ~WantsList
  /\ ~CanOpen(DeviceId)
  /\ out' = Append(out, "error")
  /\ Terminate(ExitOk)
  /\ UNCHANGED <<argv, devices, grabbers>>
  /\ UNCHANGED <<fieldVars, viewVars, grabVars, loopVars, cbVars, fsVars, histVars>>

\* lines 397-415, 427-431: the grabber cannot be created
Main_OpenFailed ==
  /\ mainpc = "args"
  /\ ~WantsHelp /\ ~WantsList
  /\ ~CanOpen(DeviceId)
  /\ out' = Append(out, "error")
  /\ Terminate(ExitOpenFailed)
  /\ UNCHANGED <<argv, devices, grabbers>>
  /\ UNCHANGED <<fieldVars, viewVars, grabVars, loopVars, cbVars, fsVars, histVars>>

\* lines 397-424: the grabber is created and the viewer constructed on it
\* (with either point type); run () is entered.  Neither the command line nor
\* the number of connected devices is read again: the model keeps the empty
\* command line and the one opened device.
Main_Open ==
  /\ mainpc = "args"
  /\ ~WantsHelp /\ ~WantsList
  /\ CanOpen(DeviceId)
  /\ grabbers' = 1
  /\ argv' = <<>>
  /\ devices' = 1
  /\ mainpc' = "run"
  /\ lpc' = "start"
  /\ UNCHANGED <<exit, out, key, l_tmp>>
  /\ UNCHANGED <<fieldVars, viewVars, grabVars, cbVars, fsVars, histVars>>

\* lines 425-433: run () has returned; the viewer is destroyed (line 148) and
\* main returns 0
Main_Return ==
  /\ mainpc = "run"
  /\ lpc = "return"
  /\ connected' = FALSE
  /\ lpc' = "done"
  /\ Terminate(ExitOk)
  /\ UNCHANGED <<argv, devices, grabbers, out, key, l_tmp>>
  /\ UNCHANGED <<running, g_filter, g_threshold, pushes>>
  /\ UNCHANGED <<fieldVars, viewVars, cbVars, fsVars, histVars>>

(* ------------------------------- run () -------------------------------- *)
\* lines 154-156: the callback is registered and acquisition started
run_Start ==
  /\ mainpc = "run"
  /\ lpc = "start"
  /\ connected' = TRUE
  /\ running' = TRUE
  /\ lpc' = "test"
  /\ UNCHANGED <<g_filter, g_threshold, pushes, key, l_tmp>>
  /\ UNCHANGED <<mainVars, fieldVars, viewVars, cbVars, fsVars, histVars>>

\* line 157: while (!viewer_.wasStopped ())
run_Test ==
  /\ mainpc = "run"
  /\ lpc = "test"
  /\ lpc' = IF stopped THEN "stop" ELSE "poll"
  /\ UNCHANGED <<key, l_tmp>>
  /\ UNCHANGED <<mainVars, fieldVars, viewVars, grabVars, cbVars, fsVars, histVars>>

\* mutant: run () takes the lock in every iteration, a frame pending or not
PollReads_Always == {TRUE}

\* What the unlocked test of line 159 can read: the slot's value, and either
\* value while cloudCallback is assigning the slot (cpc = "store").
PollReads ==
  IF cpc = "store" THEN {TRUE, FALSE} ELSE {new_cloud_ # NullCloud}

\* line 159: if (new_cloud_), read without the lock
run_Poll ==
  /\ mainpc = "run"
  /\ lpc = "poll"
  /\ \E seen \in PollReads : lpc' = IF seen THEN "lock" ELSE "spin"
  /\ UNCHANGED <<key, l_tmp>>
  /\ UNCHANGED <<mainVars, fieldVars, viewVars, grabVars, cbVars, fsVars, histVars>>

\* line 161: scoped_lock, blocks while cloudCallback holds the mutex
run_Lock ==
  /\ mainpc = "run"
  /\ lpc = "lock"
  /\ lock = "none"
  /\ lock' = "loop"
  /\ lpc' = "show"
  /\ UNCHANGED <<window_, threshold_, temporal_filtering_, with_bilateral_,
                 save_stream_, stream_id_, frame_id_, sigma_s_, sigma_r_,
                 new_cloud_, last_cloud_>>
  /\ UNCHANGED <<key, l_tmp>>
  /\ UNCHANGED <<mainVars, viewVars, grabVars, cbVars, fsVars, histVars>>

\* the cloud lines 162-168 push to the display and keep as last_cloud_
TakenCloud == new_cloud_

\* lines 162-170: the pending cloud goes to the display, the overlay is
\* refreshed, the cloud is kept as last_cloud_, the slot is cleared and the
\* lock released
run_Show ==
  /\ mainpc = "run"
  /\ lpc = "show"
  /\ shown' = TakenCloud
  /\ overlay' = DisplaySettings
  /\ last_cloud_' = TakenCloud
  /\ new_cloud_' = NullCloud
  /\ lock' = "none"
  /\ lpc' = "spin"
  /\ UNCHANGED <<window_, threshold_, temporal_filtering_, with_bilateral_,
                 save_stream_, stream_id_, frame_id_, sigma_s_, sigma_r_>>
  /\ UNCHANGED <<stopped, key, l_tmp>>
  /\ UNCHANGED <<mainVars, grabVars, cbVars, fsVars, histVars>>

\* line 171: spinOnce returns to the loop
run_SpinReturn ==
  /\ mainpc = "run"
  /\ lpc = "spin"
  /\ lpc' = "test"
  /\ UNCHANGED <<key, l_tmp>>
  /\ UNCHANGED <<mainVars, fieldVars, viewVars, grabVars, cbVars, fsVars, histVars>>

\* line 171: inside spinOnce the user closes the window
run_SpinClose ==
  /\ mainpc = "run"
  /\ lpc = "spin"
  /\ ~stopped
  /\ stopped' = TRUE
  /\ UNCHANGED <<shown, overlay>>
  /\ UNCHANGED <<mainVars, fieldVars, grabVars, loopVars, cbVars, fsVars, histVars>>

\* line 173: grabber_.stop (), then run () returns
run_Stop ==
  /\ mainpc = "run"
  /\ lpc = "stop"
  /\ running' = FALSE
  /\ lpc' = "return"
  /\ UNCHANGED <<connected, g_filter, g_threshold, pushes, key, l_tmp>>
  /\ UNCHANGED <<mainVars, fieldVars, viewVars, cbVars, fsVars, histVars>>

(* -------------------------- keyboardCallback --------------------------- *)
\* mutant: the floor of the window is 0
NextWindow_FloorZero(w, k) ==
  LET v == w + (IF k = "w" THEN 1 ELSE -1)
  IN  IF v < 0 THEN 0 ELSE v

\* lines 211-213
NextWindow(w, k) ==
  LET v == w + (IF k = "w" THEN 1 ELSE -1)
  IN  IF v < 1 THEN 1 ELSE v

\* mutant: the threshold is not clamped at 15
NextThreshold_NoUpperClamp(t, k) ==
  LET v == t + (IF k = "t" THEN 1 ELSE -1)
  IN  IF v < 0 THEN 0 ELSE v

\* lines 220-224
NextThreshold(t, k) ==
  LET v == t + (IF k = "t" THEN 1 ELSE -1)
  IN  IF v < 0 THEN 0 ELSE IF v > MaxThreshold THEN MaxThreshold ELSE v

\* mutant: the switch with the case of lines 235-240 compiled in, a cycle of
\* three modes
NextTemporal_WithMedian(m) ==
  IF m = RealSense_None THEN RealSense_Median
  ELSE IF m = RealSense_Median THEN RealSense_Average
  ELSE RealSense_None

\* the switch of lines 232-252; RealSense_Median has no case label
NextTemporal(m) ==
  IF m = RealSense_None THEN RealSense_Average
  ELSE IF m = RealSense_Average THEN RealSense_None
  ELSE m

\* lines 263-266
NextSigmaS(v, k) ==
  LET n == v + (IF k = "a" THEN 1 ELSE -1)
  IN  IF n <= 1 THEN 1 ELSE n

\* mutant: the range sigma is not clamped
NextSigmaR_NoClamp(r, k) ==
  IF k = "z" THEN FloatAdd001(r) ELSE FloatSub001(r)

\* lines 273-276
NextSigmaR(r, k) ==
  LET n == IF k = "z" THEN FloatAdd001(r) ELSE FloatSub001(r)
  IN  IF FloatLe001(n) THEN Float001 ELSE n

\* The bounds of the model: a key that would take a setting past its bound is
\* not pressed.
WithinBounds(k) ==
  /\ k = "w" => window_ < MaxWindow
  /\ k = "a" => sigma_s_ < MaxSigmaS
  /\ k = "z" => Hundredths(sigma_r_) <= MaxSigmaRSteps
  /\ k = "s" => (save_stream_ \/ stream_id_ < MaxSessions)

\* lines 205-207: spinOnce delivers a key-down event with a key code of K
keyboardCallback_Enter(K) ==
  /\ mainpc = "run"
  /\ lpc = "spin"
  /\ \E k \in K :
       /\ WithinBounds(k)
       /\ key' = k
  /\ pushes' = 0
  /\ lpc' = "key"
  /\ UNCHANGED <<running, connected, g_filter, g_threshold, l_tmp>>
  /\ UNCHANGED <<mainVars, fieldVars, viewVars, cbVars, fsVars, histVars>>

\* lines 205-207: a key-up event; the body is skipped
keyboardCallback_KeyUp ==
  /\ mainpc = "run"
  /\ lpc = "spin"
  /\ UNCHANGED vars

\* lines 205-207: a key-down event, counted
keyboardCallback_Down(K) ==
  /\ mainpc = "run"
  /\ lpc = "spin"
  /\ events < MaxEvents
  /\ \E k \in K :
       /\ WithinBounds(k)
       /\ key' = k
  /\ pushes' = 0
  /\ lpc' = "key"
  /\ events' = events + 1
  /\ UNCHANGED <<running, connected, g_filter, g_threshold, l_tmp>>
  /\ UNCHANGED <<sessions, latest, k_before>>
  /\ UNCHANGED <<mainVars, fieldVars, viewVars, cbVars, fsVars>>

\* lines 205-207: a key-up event, counted; the body is skipped
keyboardCallback_Up ==
  /\ mainpc = "run"
  /\ lpc = "spin"
  /\ events < MaxEvents
  /\ events' = events + 1
  /\ UNCHANGED <<sessions, latest, k_before>>
  /\ UNCHANGED <<mainVars, fieldVars, viewVars, grabVars, loopVars, cbVars, fsVars>>

\* the handler returns to spinOnce
Handled ==
  /\ lpc' = "spin"
  /\ key' = ""

\* lines 209-217 and 306
keyboardCallback_w ==
  /\ mainpc = "run"
  /\ lpc = "key"
  /\ key \in {"w", "W"}
  /\ window_' = NextWindow(window_, key)
  /\ g_filter' = <<temporal_filtering_, window_'>>
  /\ pushes' = pushes + 1
  /\ UNCHANGED <<threshold_, temporal_filtering_, with_bilateral_,
                 save_stream_, stream_id_, frame_id_, sigma_s_, sigma_r_,
                 new_cloud_, last_cloud_, lock>>
  /\ overlay' = DisplaySettings'
  /\ Handled
  /\ UNCHANGED <<stopped, shown, running, connected, g_threshold, l_tmp>>
  /\ UNCHANGED <<mainVars, cbVars, fsVars, histVars>>

\* lines 218-228 and 306
keyboardCallback_t ==
  /\ mainpc = "run"
  /\ lpc = "key"
  /\ key \in {"t", "T"}
  /\ threshold_' = NextThreshold(threshold_, key)
  /\ g_threshold' = <<threshold_'>>
  /\ pushes' = pushes + 1
  /\ UNCHANGED <<window_, temporal_filtering_, with_bilateral_,
                 save_stream_, stream_id_, frame_id_, sigma_s_, sigma_r_,
                 new_cloud_, last_cloud_, lock>>
  /\ overlay' = DisplaySettings'
  /\ Handled
  /\ UNCHANGED <<stopped, shown, running, connected, g_filter, l_tmp>>
  /\ UNCHANGED <<mainVars, cbVars, fsVars, histVars>>

\* the last three entries of a history
LastThree(h) == IF Len(h) > 3 THEN Tail(h) ELSE h

\* mutant: enableTemporalFiltering of line 253 is called before the switch
keyboardCallback_k_PushesOldMode ==
  /\ mainpc = "run"
  /\ lpc = "key"
  /\ key = "k"
  /\ temporal_filtering_' = NextTemporal(temporal_filtering_)
  /\ g_filter' = <<temporal_filtering_, window_>>
  /\ pushes' = pushes + 1
  /\ UNCHANGED <<window_, threshold_, with_bilateral_,
                 save_stream_, stream_id_, frame_id_, sigma_s_, sigma_r_,
                 new_cloud_, last_cloud_, lock>>
  /\ overlay' = DisplaySettings'
  /\ Handled
  /\ UNCHANGED <<stopped, shown, running, connected, g_threshold, l_tmp>>
  /\ k_before' = LastThree(Append(k_before, temporal_filtering_))
  /\ UNCHANGED <<mainVars, cbVars, fsVars, sessions, latest, events>>

\* lines 229-254 and 306
keyboardCallback_k ==
  /\ mainpc = "run"
  /\ lpc = "key"
  /\ key = "k"
  /\ temporal_filtering_' = NextTemporal(temporal_filtering_)
  /\ g_filter' = <<temporal_filtering_', window_>>
  /\ pushes' = pushes + 1
  /\ UNCHANGED <<window_, threshold_, with_bilateral_,
                 save_stream_, stream_id_, frame_id_, sigma_s_, sigma_r_,
                 new_cloud_, last_cloud_, lock>>
  /\ overlay' = DisplaySettings'
  /\ Handled
  /\ UNCHANGED <<stopped, shown, running, connected, g_threshold, l_tmp>>
  /\ k_before' = LastThree(Append(k_before, temporal_filtering_))
  /\ UNCHANGED <<mainVars, cbVars, fsVars, sessions, latest, events>>

\* lines 255-260 and 306
keyboardCallback_b ==
  /\ mainpc = "run"
  /\ lpc = "key"
  /\ key = "b"
  /\ with_bilateral_' = ~with_bilateral_
  /\ UNCHANGED <<window_, threshold_, temporal_filtering_,
                 save_stream_, stream_id_, frame_id_, sigma_s_, sigma_r_,
                 new_cloud_, last_cloud_, lock>>
  /\ overlay' = DisplaySettings'
  /\ Handled
  /\ UNCHANGED <<stopped, shown, l_tmp>>
  /\ UNCHANGED <<mainVars, grabVars, cbVars, fsVars, histVars>>

\* lines 261-270 and 306
keyboardCallback_a ==
  /\ mainpc = "run"
  /\ lpc = "key"
  /\ key \in {"a", "A"}
  /\ sigma_s_' = NextSigmaS(sigma_s_, key)
  /\ UNCHANGED <<window_, threshold_, temporal_filtering_, with_bilateral_,
                 save_stream_, stream_id_, frame_id_, sigma_r_,
                 new_cloud_, last_cloud_, lock>>
  /\ overlay' = DisplaySettings'
  /\ Handled
  /\ UNCHANGED <<stopped, shown, l_tmp>>
  /\ UNCHANGED <<mainVars, grabVars, cbVars, fsVars, histVars>>

\* lines 271-280 and 306
keyboardCallback_z ==
  /\ mainpc = "run"
  /\ lpc = "key"
  /\ key \in {"z", "Z"}
  /\ sigma_r_' = NextSigmaR(sigma_r_, key)
  /\ UNCHANGED <<window_, threshold_, temporal_filtering_, with_bilateral_,
                 save_stream_, stream_id_, frame_id_, sigma_s_,
                 new_cloud_, last_cloud_, lock>>
  /\ overlay' = DisplaySettings'
  /\ Handled
  /\ UNCHANGED <<stopped, shown, l_tmp>>
  /\ UNCHANGED <<mainVars, grabVars, cbVars, fsVars, histVars>>

\* lines 281-289 and 306: last_cloud_ is saved under its serial and stamp
keyboardCallback_p ==
  /\ mainpc = "run"
  /\ lpc = "key"
  /\ key = "p"
  /\ last_cloud_ # NullCloud
  /\ manual' = manual \cup {last_cloud_.id}
  /\ overlay' = DisplaySettings
  /\ Handled
  /\ UNCHANGED <<stopped, shown, l_tmp, dirs, files>>
  /\ UNCHANGED <<mainVars, fieldVars, grabVars, cbVars, histVars>>

\* line 284 with an empty last_cloud_: the null pointer is dereferenced and
\* the process is killed
keyboardCallback_pNull ==
  /\ mainpc = "run"
  /\ lpc = "key"
  /\ key = "p"
  /\ last_cloud_ = NullCloud
  /\ mainpc' = "aborted"
  /\ UNCHANGED <<argv, devices, exit, grabbers, out>>
  /\ UNCHANGED <<fieldVars, viewVars, grabVars, loopVars, cbVars, fsVars, histVars>>

\* mutant: the test of line 255 lets every key code through
keyboardCallback_other_TogglesBilateral ==
  /\ mainpc = "run"
  /\ lpc = "key"
  /\ key \notin (SettingKeys \cup {"p", "s"})
  /\ with_bilateral_' = ~with_bilateral_
  /\ UNCHANGED <<window_, threshold_, temporal_filtering_,
                 save_stream_, stream_id_, frame_id_, sigma_s_, sigma_r_,
                 new_cloud_, last_cloud_, lock>>
  /\ overlay' = DisplaySettings'
  /\ Handled
  /\ UNCHANGED <<stopped, shown, l_tmp>>
  /\ UNCHANGED <<mainVars, grabVars, cbVars, fsVars, histVars>>

\* lines 207-306 for a key code no branch tests: only the overlay is refreshed
keyboardCallback_other ==
  /\ mainpc = "run"
  /\ lpc = "key"
  /\ key \notin (SettingKeys \cup {"p", "s"})
  /\ overlay' = DisplaySettings
  /\ Handled
  /\ UNCHANGED <<stopped, shown, l_tmp>>
  /\ UNCHANGED <<mainVars, fieldVars, grabVars, cbVars, fsVars, histVars>>

\* line 292: save_stream_ = !save_stream_
keyboardCallback_s ==
  /\ mainpc = "run"
  /\ lpc = "key"
  /\ key = "s"
  /\ save_stream_' = ~save_stream_
  /\ lpc' = IF save_stream_' THEN "s_sid" ELSE "s_reset"
  /\ UNCHANGED <<window_, threshold_, temporal_filtering_, with_bilateral_,
                 stream_id_, frame_id_, sigma_s_, sigma_r_,
                 new_cloud_, last_cloud_, lock>>
  /\ UNCHANGED <<key, l_tmp>>
  /\ UNCHANGED <<mainVars, viewVars, grabVars, cbVars, fsVars, histVars>>

\* mutant: an activation keeps the stream id
NextStreamId_Kept(id) == id

\* the value stream_id_++ of line 297 leaves in stream_id_
NextStreamId(id) == id + 1

\* line 297: stream_id_++
keyboardCallback_sStreamId ==
  /\ mainpc = "run"
  /\ lpc = "s_sid"
  /\ stream_id_' = NextStreamId(stream_id_)
  /\ sessions' = Append(sessions, stream_id_')
  /\ UNCHANGED <<latest, k_before, events>>
  /\ lpc' = "s_fid_ld"
  /\ UNCHANGED <<window_, threshold_, temporal_filtering_, with_bilateral_,
                 save_stream_, frame_id_, sigma_s_, sigma_r_,
                 new_cloud_, last_cloud_, lock>>
  /\ UNCHANGED <<key, l_tmp>>
  /\ UNCHANGED <<mainVars, viewVars, grabVars, cbVars, fsVars>>

\* line 297: frame_id_++, the load
keyboardCallback_sFrameLoad ==
  /\ mainpc = "run"
  /\ lpc = "s_fid_ld"
  /\ l_tmp' = frame_id_
  /\ lpc' = "s_fid_st"
  /\ UNCHANGED key
  /\ UNCHANGED <<mainVars, fieldVars, viewVars, grabVars, cbVars, fsVars, histVars>>

\* the value frame_id_++ of line 297 stores, from the value it loaded
ActivationFrameId(loaded) == loaded + 1

\* line 297: frame_id_++, the store
keyboardCallback_sFrameStore ==
  /\ mainpc = "run"
  /\ lpc = "s_fid_st"
  /\ frame_id_' = ActivationFrameId(l_tmp)
  /\ l_tmp' = 0
  /\ lpc' = "s_mkdir"
  /\ UNCHANGED <<window_, threshold_, temporal_filtering_, with_bilateral_,
                 save_stream_, stream_id_, sigma_s_, sigma_r_,
                 new_cloud_, last_cloud_, lock>>
  /\ UNCHANGED key
  /\ UNCHANGED <<mainVars, viewVars, grabVars, cbVars, fsVars, histVars>>

\* lines 298, 310-314 and 306: CreateDirectory succeeds
createStreamDirectory_Ok ==
  /\ mainpc = "run"
  /\ lpc = "s_mkdir"
  /\ Pad4(stream_id_) \notin dirs
  /\ dirs' = dirs \cup {Pad4(stream_id_)}
  /\ overlay' = DisplaySettings
  /\ Handled
  /\ UNCHANGED <<stopped, shown, l_tmp, files, manual>>
  /\ UNCHANGED <<mainVars, fieldVars, grabVars, cbVars, histVars>>

\* lines 314-318: CreateDirectory fails (the directory exists already, or the
\* file system refuses); exit (-1)
createStreamDirectory_Fail ==
  /\ mainpc = "run"
  /\ lpc = "s_mkdir"
  /\ out' = Append(out, "mkdir-error")
  /\ Terminate(ExitMkdirFailed)
  /\ UNCHANGED <<argv, devices, grabbers>>
  /\ UNCHANGED <<fieldVars, viewVars, grabVars, loopVars, cbVars, fsVars, histVars>>

\* line 302 and 306: frame_id_ = 0
keyboardCallback_sReset ==
  /\ mainpc = "run"
  /\ lpc = "s_reset"
  /\ frame_id_' = 0
  /\ UNCHANGED <<window_, threshold_, temporal_filtering_, with_bilateral_,
                 save_stream_, stream_id_, sigma_s_, sigma_r_,
                 new_cloud_, last_cloud_, lock>>
  /\ overlay' = DisplaySettings'
  /\ Handled
  /\ UNCHANGED <<stopped, shown, l_tmp>>
  /\ UNCHANGED <<mainVars, grabVars, cbVars, fsVars, histVars>>

(* ---------------------------- cloudCallback ---------------------------- *)
\* mutant: the callback does not test viewer_.wasStopped ()
cloudCallback_Enter_IgnoresStopped ==
  /\ mainpc = "run"
  /\ cpc = "idle"
  /\ running /\ connected
  /\ delivered < MaxFrames
  /\ delivered' = delivered + 1
  /\ c_cloud' = delivered + 1
  /\ cpc' = "lock"
  /\ UNCHANGED <<c_sid, c_fid>>
  /\ UNCHANGED <<mainVars, fieldVars, viewVars, grabVars, loopVars, fsVars, histVars>>

\* lines 179-181: the grabber's thread calls the callback with the next frame;
\* with the display stopped the frame is dropped
cloudCallback_Enter ==
  /\ mainpc = "run"
  /\ cpc = "idle"
  /\ running /\ connected
  /\ delivered < MaxFrames
  /\ delivered' = delivered + 1
  /\ c_cloud' = delivered + 1
  /\ cpc' = IF stopped THEN "idle" ELSE "lock"
  /\ UNCHANGED <<c_sid, c_fid>>
  /\ UNCHANGED <<mainVars, fieldVars, viewVars, grabVars, loopVars, fsVars, histVars>>

\* line 183: scoped_lock, blocks while run () holds the mutex
cloudCallback_Lock ==
  /\ mainpc = "run"
  /\ cpc = "lock"
  /\ lock = "none"
  /\ lock' = "cb"
  /\ cpc' = "store"
  /\ UNCHANGED <<window_, threshold_, temporal_filtering_, with_bilateral_,
                 save_stream_, stream_id_, frame_id_, sigma_s_, sigma_r_,
                 new_cloud_, last_cloud_>>
  /\ UNCHANGED <<c_cloud, c_sid, c_fid, delivered>>
  /\ UNCHANGED <<mainVars, viewVars, grabVars, loopVars, fsVars, histVars>>

\* mutant: a pending cloud that run () has not taken yet is kept
StoredCloud_KeepPending ==
  IF new_cloud_ # NullCloud THEN new_cloud_ ELSE Cloud(c_cloud, with_bilateral_)

\* lines 184-194: what is assigned to the slot for the frame just delivered
StoredCloud == Cloud(c_cloud, with_bilateral_)

\* lines 184-194: new_cloud_ = the frame, or the frame filtered
cloudCallback_Store ==
  /\ mainpc = "run"
  /\ cpc = "store"
  /\ new_cloud_' = StoredCloud
  /\ latest' = StoredCloud
  /\ cpc' = "check"
  /\ UNCHANGED <<window_, threshold_, temporal_filtering_, with_bilateral_,
                 save_stream_, stream_id_, frame_id_, sigma_s_, sigma_r_,
                 last_cloud_, lock>>
  /\ UNCHANGED <<c_cloud, c_sid, c_fid, delivered>>
  /\ UNCHANGED <<mainVars, viewVars, grabVars, loopVars, fsVars, sessions, k_before, events>>

\* lines 196-201 with save_stream_ false: the lock is released, the callback
\* returns
cloudCallback_Skip ==
  /\ mainpc = "run"
  /\ cpc = "check"
  /\ ~save_stream_
  /\ lock' = "none"
  /\ cpc' = "idle"
  /\ c_cloud' = 0
  /\ UNCHANGED <<window_, threshold_, temporal_filtering_, with_bilateral_,
                 save_stream_, stream_id_, frame_id_, sigma_s_, sigma_r_,
                 new_cloud_, last_cloud_>>
  /\ UNCHANGED <<c_sid, c_fid, delivered>>
  /\ UNCHANGED <<mainVars, viewVars, grabVars, loopVars, fsVars, histVars>>

\* lines 196-198 with save_stream_ true: savePointCloud is entered
cloudCallback_Save ==
  /\ mainpc = "run"
  /\ cpc = "check"
  /\ save_stream_
  /\ cpc' = "sid"
  /\ UNCHANGED <<c_cloud, c_sid, c_fid, delivered>>
  /\ UNCHANGED <<mainVars, fieldVars, viewVars, grabVars, loopVars, fsVars, histVars>>

(* ---------------------------- savePointCloud --------------------------- *)
\* line 325: stream_id_ is read for the directory part of the name
savePointCloud_StreamId ==
  /\ mainpc = "run"
  /\ cpc = "sid"
  /\ c_sid' = stream_id_
  /\ cpc' = "write"
  /\ UNCHANGED <<c_cloud, c_fid, delivered>>
  /\ UNCHANGED <<mainVars, fieldVars, viewVars, grabVars, loopVars, fsVars, histVars>>

\* lines 325-326: frame_id_ is read for the file part of the name and the
\* slot's cloud is written to <stream>/<frame>.pcd
savePointCloud_Write ==
  /\ mainpc = "run"
  /\ cpc = "write"
  /\ Pad4(c_sid) \in dirs
  /\ files' = Append(files, [dir |-> Pad4(c_sid), idx |-> Pad4(frame_id_),
                              frame |-> new_cloud_.id])
  /\ cpc' = "inc_ld"
  /\ UNCHANGED <<c_cloud, c_sid, c_fid, delivered, dirs, manual>>
  /\ UNCHANGED <<mainVars, fieldVars, viewVars, grabVars, loopVars, histVars>>

\* lines 325-326 when the directory does not exist: the file cannot be opened;
\* the writer reports the error, which line 326 ignores
savePointCloud_WriteFails ==
  /\ mainpc = "run"
  /\ cpc = "write"
  /\ Pad4(c_sid) \notin dirs
  /\ cpc' = "inc_ld"
  /\ UNCHANGED <<c_cloud, c_sid, c_fid, delivered>>
  /\ UNCHANGED <<mainVars, fieldVars, viewVars, grabVars, loopVars, fsVars, histVars>>

\* lines 325-326 when the directory does not exist and the writer throws: no
\* handler is on the grabber's thread and the process is killed
savePointCloud_WriteThrows ==
  /\ mainpc = "run"
  /\ cpc = "write"
  /\ Pad4(c_sid) \notin dirs
  /\ mainpc' = "aborted"
  /\ UNCHANGED <<argv, devices, exit, grabbers, out>>
  /\ UNCHANGED <<fieldVars, viewVars, grabVars, loopVars, cbVars, fsVars, histVars>>

\* line 327: frame_id_++, the load
savePointCloud_FrameLoad ==
  /\ mainpc = "run"
  /\ cpc = "inc_ld"
  /\ c_fid' = frame_id_
  /\ cpc' = "inc_st"
  /\ UNCHANGED <<c_cloud, c_sid, delivered>>
  /\ UNCHANGED <<mainVars, fieldVars, viewVars, grabVars, loopVars, fsVars, histVars>>

\* line 327 and 201-202: frame_id_++, the store; savePointCloud and the
\* callback return and the lock is released
savePointCloud_FrameStore ==
  /\ mainpc = "run"
  /\ cpc = "inc_st"
  /\ frame_id_' = c_fid + 1
  /\ lock' = "none"
  /\ cpc' = "idle"
  /\ c_cloud' = 0 /\ c_sid' = 0 /\ c_fid' = 0
  /\ UNCHANGED <<window_, threshold_, temporal_filtering_, with_bilateral_,
                 save_stream_, stream_id_, sigma_s_, sigma_r_,
                 new_cloud_, last_cloud_>>
  /\ UNCHANGED delivered
  /\ UNCHANGED <<mainVars, viewVars, grabVars, loopVars, fsVars, histVars>>

(* --------------------------- specifications ---------------------------- *)
\* the keys pressed in the hand-off specification: those whose branches write
\* what cloudCallback reads, and one no branch tests
RunKeys == {"s", "b", "x"}

Main ==
  \/ Main_Help
  \/ Main_List
  \/ printDeviceList_Probe
  \/ printDeviceList_Done
  \/ Main_OpenFailed
  \/ Main_Open
  \/ Main_Return

Loop ==
  \/ run_Start
  \/ run_Test
  \/ run_Poll
  \/ run_Lock
  \/ run_Show
  \/ run_SpinReturn
  \/ run_SpinClose
  \/ run_Stop

Recorder ==
  \/ keyboardCallback_s
  \/ keyboardCallback_sStreamId
  \/ keyboardCallback_sFrameLoad
  \/ keyboardCallback_sFrameStore
  \/ createStreamDirectory_Ok
  \/ createStreamDirectory_Fail
  \/ keyboardCallback_sReset

Capture ==
  \/ cloudCallback_Enter
  \/ cloudCallback_Lock
  \/ cloudCallback_Store
  \/ cloudCallback_Skip
  \/ cloudCallback_Save
  \/ savePointCloud_StreamId
  \/ savePointCloud_Write
  \/ savePointCloud_WriteFails
  \/ savePointCloud_WriteThrows
  \/ savePointCloud_FrameLoad
  \/ savePointCloud_FrameStore

\* the whole program, from main on, with the keys of RunKeys
Next ==
  \/ Main
  \/ Loop
  \/ keyboardCallback_Enter(RunKeys)
  \/ keyboardCallback_KeyUp
  \/ keyboardCallback_b
  \/ keyboardCallback_other
  \/ Recorder
  \/ Capture

Spec == Init /\ [][Next]_vars

\* the viewer running on an opened device, the capture source delivering no
\* frame
InitKeys ==
  /\ argv = <<>>
  /\ devices = 1
  /\ mainpc = "run"
  /\ grabbers = 1
  /\ lpc = "start"
  /\ Fresh

\* the setting keys of the key table and one key no branch tests
NextKeys ==
  \/ run_Start
  \/ run_Test
  \/ run_Poll
  \/ run_SpinReturn
  \/ keyboardCallback_Enter(SettingKeys \cup {"x"})
  \/ keyboardCallback_KeyUp
  \/ keyboardCallback_w
  \/ keyboardCallback_t
  \/ keyboardCallback_k
  \/ keyboardCallback_b
  \/ keyboardCallback_a
  \/ keyboardCallback_z
  \/ keyboardCallback_other

SpecKeys == InitKeys /\ [][NextKeys]_vars

\* The viewer with its first frame displayed (lines 131-171: constructed,
\* started, frame 1 delivered, stored and shown) and the loop at the yield.
FirstFrameShown ==
  /\ argv = <<>> /\ devices = 1 /\ mainpc = "run" /\ exit = <<>>
  /\ grabbers = 1 /\ out = <<>>
  /\ window_ = InitWindow
  /\ threshold_ = InitThreshold
  /\ temporal_filtering_ = RealSense_None
  /\ with_bilateral_ = FALSE
  /\ save_stream_ = FALSE
  /\ stream_id_ = 0
  /\ frame_id_ = 0
  /\ sigma_s_ = InitSigmaS
  /\ sigma_r_ = Float005
  /\ new_cloud_ = NullCloud
  /\ last_cloud_ = Cloud(1, FALSE)
  /\ lock = "none"
  /\ stopped = FALSE /\ shown = Cloud(1, FALSE) /\ overlay = DisplaySettings
  /\ running = TRUE /\ connected = TRUE
  /\ g_filter = <<>> /\ g_threshold = <<>> /\ pushes = 0
  /\ lpc = "spin" /\ key = "" /\ l_tmp = 0
  /\ cpc = "idle" /\ c_cloud = 0 /\ c_sid = 0 /\ c_fid = 0 /\ delivered = 1
  /\ dirs = {} /\ files = <<>> /\ manual = {}
  /\ sessions = <<>> /\ latest = Cloud(1, FALSE) /\ k_before = <<>> /\ events = 0

\* every key of the key table and one outside it, key-down and key-up, at
\* most MaxEvents events; the capture source delivers no further frame
NextDispatch ==
  \/ run_Test
  \/ run_Poll
  \/ run_SpinReturn
  \/ keyboardCallback_Down(AllKeys)
  \/ keyboardCallback_Up
  \/ keyboardCallback_w
  \/ keyboardCallback_t
  \/ keyboardCallback_k
  \/ keyboardCallback_b
  \/ keyboardCallback_a
  \/ keyboardCallback_z
  \/ keyboardCallback_p
  \/ keyboardCallback_other
  \/ Recorder

SpecDispatch == FirstFrameShown /\ [][NextDispatch]_vars

\* the control loop, the capture source and the keys p and b, recording off
NextManual ==
  \/ run_Start
  \/ run_Test
  \/ run_Poll
  \/ run_Lock
  \/ run_Show
  \/ run_SpinReturn
  \/ keyboardCallback_Enter({"p", "b"})
  \/ keyboardCallback_KeyUp
  \/ keyboardCallback_b
  \/ keyboardCallback_p
  \/ keyboardCallback_pNull
  \/ cloudCallback_Enter
  \/ cloudCallback_Lock
  \/ cloudCallback_Store
  \/ cloudCallback_Skip

SpecManual == InitKeys /\ [][NextManual]_vars

\* the steps the control context takes by itself: run () and the handlers of
\* the keys b and x (a key event is the user's step, not the thread's)
ControlStep ==
  \/ run_Start
  \/ run_Test
  \/ run_Poll
  \/ run_Lock
  \/ run_Show
  \/ run_SpinReturn
  \/ keyboardCallback_b
  \/ keyboardCallback_other

\* the control loop with a capture source that delivers frames when it likes,
\* or none at all, recording off
NextLoop ==
  \/ ControlStep
  \/ keyboardCallback_Enter({"b", "x"})
  \/ keyboardCallback_KeyUp
  \/ cloudCallback_Enter
  \/ cloudCallback_Lock
  \/ cloudCallback_Store
  \/ cloudCallback_Skip

\* The control context is a thread that runs: unless it is blocked on the
\* mutex it takes its next step.  spinOnce (1, true) of line 171 returns when
\* its time is over, however many key events arrive.  Nothing is assumed of
\* the capture context.
SpecLoop ==
  /\ InitKeys
  /\ [][NextLoop]_vars
  /\ WF_vars(ControlStep)
  /\ SF_vars(run_SpinReturn)

(* ------------------------- what each step accesses --------------------- *)
\* A field access of the step a context takes next: the field, whether it is
\* written, and whether the step runs with new_cloud_mutex_ held.
Access(v, w, l) == [var |-> v, write |-> w, locked |-> l]

\* the fields displaySettings reads (lines 341-349)
DisplayReads ==
  {Access(v, FALSE, FALSE) :
     v \in {"with_bilateral_", "save_stream_", "sigma_s_", "sigma_r_"}}

\* the accesses of the control context's next step to the fields that
\* cloudCallback also touches (run, lines 159-169; keyboardCallback, lines
\* 255-306)
LoopAccess ==
  IF mainpc # "run" THEN {}
  ELSE IF lpc = "poll" THEN {Access("new_cloud_", FALSE, FALSE)}
  ELSE IF lpc = "show" THEN {Access("new_cloud_", TRUE, TRUE)} \cup
                            {[a EXCEPT !.locked = TRUE] : a \in DisplayReads}
  ELSE IF lpc = "key" /\ key = "b" THEN {Access("with_bilateral_", TRUE, FALSE)}
  ELSE IF lpc = "key" /\ key \in {"a", "A"} THEN {Access("sigma_s_", TRUE, FALSE)}
  ELSE IF lpc = "key" /\ key \in {"z", "Z"} THEN {Access("sigma_r_", TRUE, FALSE)}
  ELSE IF lpc = "key" /\ key = "s" THEN {Access("save_stream_", TRUE, FALSE)}
  ELSE IF lpc = "key" THEN DisplayReads
  ELSE IF lpc = "s_sid" THEN {Access("stream_id_", TRUE, FALSE)}
  ELSE IF lpc = "s_fid_ld" THEN {Access("frame_id_", FALSE, FALSE)}
  ELSE IF lpc = "s_fid_st" THEN {Access("frame_id_", TRUE, FALSE)}
  ELSE IF lpc = "s_mkdir" THEN {Access("stream_id_", FALSE, FALSE)} \cup DisplayReads
  ELSE IF lpc = "s_reset" THEN {Access("frame_id_", TRUE, FALSE)} \cup DisplayReads
  ELSE {}

\* the accesses of cloudCallback's next step (lines 184-198, 325-327); every
\* one of them is made with the mutex held
CbAccess ==
  IF mainpc # "run" THEN {}
  ELSE IF cpc = "store" THEN
         {Access("with_bilateral_", FALSE, TRUE), Access("new_cloud_", TRUE, TRUE)} \cup
         (IF with_bilateral_
          THEN {Access("sigma_s_", FALSE, TRUE), Access("sigma_r_", FALSE, TRUE)}
          ELSE {})
  ELSE IF cpc = "check" THEN {Access("save_stream_", FALSE, TRUE)}
  ELSE IF cpc = "sid" THEN {Access("stream_id_", FALSE, TRUE)}
  ELSE IF cpc = "write" THEN {Access("frame_id_", FALSE, TRUE), Access("new_cloud_", FALSE, TRUE)}
  ELSE IF cpc = "inc_ld" THEN {Access("frame_id_", FALSE, TRUE)}
  ELSE IF cpc = "inc_st" THEN {Access("frame_id_", TRUE, TRUE)}
  ELSE {}

\* Two accesses race: the same field, one of them a write, and not both under
\* the mutex.
Races(a, b) == a.var = b.var /\ (a.write \/ b.write) /\ ~(a.locked /\ b.locked)

(* ------------------------------- claims -------------------------------- *)
\* the entries of the write log for session directory d, in the order written
FilesIn(d) == SelectSeq(files, LAMBDA f : f.dir = d)

\* the frame indices saved into directory d are consecutive, in the order saved
GapFree(d) ==
  \A i \in 1..(Len(FilesIn(d)) - 1) :
    NumberOf(FilesIn(d)[i + 1].idx) = NumberOf(FilesIn(d)[i].idx) + 1

\* C1: while recording is active every frame delivered to the capture callback
\* produces exactly one saved file, and within one session directory the frame
\* indices of the saved files are consecutive integers in the order saved,
\* under every interleaving of frame deliveries with key events.
C1_OneFilePerFrameGapFree ==
  /\ cpc \in {"inc_ld", "inc_st"} =>
       Cardinality({i \in DOMAIN files : files[i].frame = c_cloud}) = 1
  /\ \A d \in dirs : GapFree(d)

\* C1, the second conjunct alone: violated too, by a frame whose callback has
\* passed the test of save_stream_ when the s key turns recording off.
C1_GapFreeAlone == \A d \in dirs : GapFree(d)

\* C2: in every recording session the first frame saved in the session
\* directory has frame index 0 (file 0000).
C2_NumberingRestartsAtZero ==
  \A d \in dirs : Len(FilesIn(d)) > 0 => FilesIn(d)[1].idx = <<0, 0, 0, 0>>

\* C3: the n-th activation allocates session id n (so each id is greater than
\* every earlier one, and the first directory is 0001), no two activations
\* name the same directory, the directories created are those of allocated
\* ids, and stream_id_ is always the id allocated last: nothing but an
\* activation changes it.
C3_SessionIdsMonotonic ==
  LET names == {Pad4(sessions[i]) : i \in DOMAIN sessions}
  IN  /\ \A i \in DOMAIN sessions : sessions[i] = i
      /\ Cardinality(names) = Len(sessions)
      /\ sessions # <<>> => Pad4(sessions[1]) = <<0, 0, 0, 1>>
      /\ stream_id_ = Len(sessions)
      /\ dirs \subseteq names

\* C3 witness: recording has been activated twice (with a deactivation in
\* between) and is active in the second session directory.
C3_Witness ==
  /\ Len(sessions) = 2
  /\ dirs = {<<0, 0, 0, 1>>, <<0, 0, 0, 2>>}
  /\ save_stream_
  /\ lpc = "spin"

\* C4: the slot holds one cloud; a delivered frame replaces whatever is
\* pending; what run () pushes to the display is the cloud cloudCallback
\* stored most recently, it is newer than the cloud displayed before (no frame
\* is displayed twice), and the slot is empty after the take.
C4_LatestWins ==
  [][ /\ (cpc = "store" /\ cpc' = "check") =>
           (new_cloud_'.id = delivered /\ new_cloud_'.id = c_cloud)
      /\ (lpc = "show" /\ lpc' = "spin") =>
           /\ shown' = latest
           /\ shown' # NullCloud
           /\ shown'.id > shown.id
           /\ last_cloud_' = shown'
           /\ new_cloud_' = NullCloud
    ]_vars

\* C4 witness: the second frame has replaced the first, which was never
\* displayed, and run () holds the lock to take it.
C4_Witness ==
  /\ lpc = "show"
  /\ new_cloud_.id = 2
  /\ shown = NullCloud

\* C5: the two contexts share no field but the pending slot, and every access
\* to the slot is made with the hand-off lock held: at no time are the two
\* contexts about to access the same field, one of them writing, unless both
\* hold the lock for it.
C5_NoUnlockedSharing ==
  \A a \in LoopAccess : \A b \in CbAccess : ~Races(a, b)

\* C6: pressing k three times in a row returns the temporal filter mode to the
\* value it had before the first of the three presses.
C6_ThreePressesReturn ==
  Len(k_before) = 3 => temporal_filtering_ = k_before[1]

\* C6 as amended: pressing k twice in a row returns the mode to the value it
\* had before the first of the two presses, from none and from average.
C6_TwoPressesReturn ==
  Len(k_before) >= 2 => temporal_filtering_ = k_before[Len(k_before) - 1]

\* C6 witness: k has been pressed three times, starting from none.
C6_Witness ==
  /\ k_before = <<RealSense_None, RealSense_Average, RealSense_None>>
  /\ temporal_filtering_ = RealSense_Average
  /\ lpc = "spin"

\* C7: the confidence threshold, and every value pushed to the capture source
\* by setConfidenceThreshold, is within [0,15]; t adds 1 and T subtracts 1,
\* saturating at 15 and at 0, and pushes the new value.
C7_ThresholdRange ==
  /\ [](/\ threshold_ \in 0..15
        /\ g_threshold # <<>> => g_threshold[1] \in 0..15)
  /\ [][(lpc = "key" /\ key \in {"t", "T"} /\ lpc' = "spin") =>
          /\ key = "t" => threshold_' = (IF threshold_ = 15 THEN 15 ELSE threshold_ + 1)
          /\ key = "T" => threshold_' = (IF threshold_ = 0 THEN 0 ELSE threshold_ - 1)
          /\ g_threshold' = <<threshold_'>>
       ]_vars

\* C7 witness: t is pressed once more after 15 has been pushed to the capture
\* source.
C7_Witness ==
  /\ lpc = "key" /\ key = "t"
  /\ threshold_ = 15
  /\ g_threshold = <<15>>

\* C8: the temporal-filter window, and every window pushed to the capture
\* source by enableTemporalFiltering, is at least 1; w adds 1 and W subtracts
\* 1 with floor 1, and pushes the new window.
C8_WindowFloor ==
  /\ [](/\ window_ >= 1
        /\ g_filter # <<>> => g_filter[2] >= 1)
  /\ [][(lpc = "key" /\ key \in {"w", "W"} /\ lpc' = "spin") =>
          /\ key = "w" => window_' = window_ + 1
          /\ key = "W" => window_' = (IF window_ = 1 THEN 1 ELSE window_ - 1)
          /\ g_filter' = <<temporal_filtering_, window_'>>
       ]_vars

\* C8 witness: W is pressed once more after window 1 has been pushed to the
\* capture source.
C8_Witness ==
  /\ lpc = "key" /\ key = "W"
  /\ window_ = 1
  /\ g_filter # <<>> /\ g_filter[2] = 1

\* C9: the bilateral spatial sigma is never below 1 and moves in steps of 1
\* from 5; the bilateral range sigma is never below 0.01 (never below the
\* float 0.01, and never below 1 in the hundredths "%.2f" shows) and moves in
\* steps of one hundredth.
C9_SigmaFloors ==
  /\ [](/\ sigma_s_ >= 1
        /\ sigma_r_ >= Float001
        /\ Hundredths(sigma_r_) >= 1)
  /\ [][/\ (lpc = "key" /\ key \in {"a", "A"} /\ lpc' = "spin") =>
             /\ key = "a" => sigma_s_' = sigma_s_ + 1
             /\ key = "A" => sigma_s_' = (IF sigma_s_ = 1 THEN 1 ELSE sigma_s_ - 1)
        /\ (lpc = "key" /\ key \in {"z", "Z"} /\ lpc' = "spin") =>
             /\ key = "z" => Hundredths(sigma_r_') = Hundredths(sigma_r_) + 1
             /\ key = "Z" => Hundredths(sigma_r_') =
                               (IF Hundredths(sigma_r_) = 1 THEN 1
                                ELSE Hundredths(sigma_r_) - 1)
       ]_vars

\* C9 witness: both sigmas are at their floors and Z is pressed once more.
C9_Witness ==
  /\ lpc = "key" /\ key = "Z"
  /\ sigma_s_ = 1
  /\ sigma_r_ = Float001

\* main returned 1 because the grabber could not be created
OpenFailed == mainpc = "exited" /\ lpc = "init" /\ ~WantsHelp /\ ~WantsList

\* the process ended in createStreamDirectory
MkdirFailed == mainpc = "exited" /\ lpc = "s_mkdir"

\* C10: the exit code is 1 if the requested device cannot be opened and 0 in
\* every other way the process can terminate, the termination after a
\* recording-directory creation failure included.
C10_ExitOneOrZero ==
  exit # <<>> => exit[1] = (IF OpenFailed THEN 1 ELSE 0)

\* C10 as amended: the exit code is 1 if the requested device cannot be
\* opened (and only then), -1 when the process terminates after a
\* recording-directory creation failure, and 0 after help, list and the
\* normal close of the display.
C10_ExitCodes ==
  /\ exit # <<>> =>
       exit[1] = (IF OpenFailed THEN 1 ELSE IF MkdirFailed THEN -1 ELSE 0)
  /\ OpenFailed <=> (mainpc = "exited" /\ ~WantsHelp /\ ~WantsList /\ ~CanOpen(DeviceId))
  /\ mainpc = "exited" <=> exit # <<>>

\* C10 witness: the process has terminated after a recording-directory
\* creation failure.
C10_Witness ==
  /\ mainpc = "exited"
  /\ lpc = "s_mkdir"
  /\ exit = <<-1>>

\* C11: the control loop never waits for a frame.  An iteration whose test of
\* line 159 finds no frame pending (and none being stored) goes to the
\* render-loop yield with no display update and without touching the lock;
\* run () is at the lock only with a frame pending or being stored, and what
\* it pushes to the display is never an empty cloud; and if the capture
\* source never delivers a frame, every iteration reaches the yield and the
\* loop is at the yield (where key events are delivered) again and again.
C11_NeverWaitsForFrame ==
  /\ [][(lpc = "poll" /\ lpc' # "poll" /\ new_cloud_ = NullCloud /\ cpc # "store") =>
          /\ lpc' = "spin"
          /\ UNCHANGED <<shown, overlay, last_cloud_, new_cloud_, lock>>
       ]_vars
  /\ [](/\ lpc = "lock" => (new_cloud_ # NullCloud \/ cpc = "store")
        /\ lpc = "show" => new_cloud_ # NullCloud)
  /\ ([](delivered = 0) => /\ (lpc = "poll") ~> (lpc = "spin")
                           /\ []<>(lpc = "spin")
                           /\ []<>(lpc = "poll"))

\* C11 witness: no frame has been delivered and the loop is at the yield for
\* the second time at least (a key-down has been handled there), with nothing
\* displayed and the lock free.
C11_Witness ==
  /\ lpc = "spin"
  /\ running /\ delivered = 0
  /\ overlay # NoOverlay
  /\ shown = NullCloud /\ last_cloud_ = NullCloud
  /\ lock = "none"

\* the fields of the settings record and of the recorder that a step changes
Changed ==
  (IF window_' # window_ THEN {"window_"} ELSE {}) \cup
  (IF threshold_' # threshold_ THEN {"threshold_"} ELSE {}) \cup
  (IF temporal_filtering_' # temporal_filtering_ THEN {"temporal_filtering_"} ELSE {}) \cup
  (IF with_bilateral_' # with_bilateral_ THEN {"with_bilateral_"} ELSE {}) \cup
  (IF sigma_s_' # sigma_s_ THEN {"sigma_s_"} ELSE {}) \cup
  (IF sigma_r_' # sigma_r_ THEN {"sigma_r_"} ELSE {}) \cup
  (IF save_stream_' # save_stream_ THEN {"save_stream_"} ELSE {}) \cup
  (IF stream_id_' # stream_id_ THEN {"stream_id_"} ELSE {}) \cup
  (IF frame_id_' # frame_id_ THEN {"frame_id_"} ELSE {})

\* the fields the row of key k in the key table names; no row for any other
\* key, and none for "", the key code while no key-down is being handled
Row(k) ==
  IF k \in {"w", "W"} THEN {"window_"}
  ELSE IF k \in {"t", "T"} THEN {"threshold_"}
  ELSE IF k = "k" THEN {"temporal_filtering_"}
  ELSE IF k = "b" THEN {"with_bilateral_"}
  ELSE IF k \in {"a", "A"} THEN {"sigma_s_"}
  ELSE IF k \in {"z", "Z"} THEN {"sigma_r_"}
  ELSE IF k = "s" THEN {"save_stream_", "stream_id_", "frame_id_"}
  ELSE {}

\* C12: a key-up event, and a key-down event for a key outside the key table,
\* leaves the settings (window, threshold, temporal mode, bilateral flag, both
\* sigmas, recording flag), the session id and the frame counter unchanged
\* and pushes nothing to the capture source; the handler of a key of the
\* table changes only the fields its row names (s: the recording flag, the
\* session id and the frame counter), and only w, W, k push the temporal
\* filter and only t, T the threshold.
C12_KeysChangeOnlyTheirRow ==
  [][ /\ Changed \subseteq Row(key)
      /\ (events' # events /\ lpc' = "spin") =>
           UNCHANGED <<fieldVars, grabVars, fsVars, viewVars>>
      /\ pushes' > pushes => key \in {"w", "W", "k", "t", "T"}
      /\ g_filter' # g_filter => key \in {"w", "W", "k"}
      /\ g_threshold' # g_threshold => key \in {"t", "T"}
    ]_vars

\* C12 witness: with recording on in session 1 and the temporal filter at
\* average, a key-down of a key outside the table is in the handler.
C12_Witness ==
  /\ lpc = "key" /\ key = "x"
  /\ save_stream_ /\ stream_id_ = 1
  /\ temporal_filtering_ = RealSense_Average
  /\ g_filter = <<RealSense_Average, InitWindow>>

\* C13: with --help or -h among the arguments, whatever the other arguments
\* (--list and a device id included) and however many devices are connected,
\* the first step of main prints the usage and returns 0: no grabber is ever
\* instantiated, printDeviceList and run () are never entered.  With no
\* device connected (and no help switch), --list prints "none" and returns 0.
C13_HelpTouchesNoDevice ==
  /\ [](WantsHelp =>
          /\ grabbers = 0
          /\ mainpc \in {"args", "exited"}
          /\ lpc = "init" /\ ~running /\ ~connected
          /\ mainpc = "exited" => (out = <<"usage">> /\ exit = <<0>>))
  /\ []((~WantsHelp /\ WantsList /\ devices = 0 /\ mainpc = "exited") =>
          (out = <<"none">> /\ exit = <<0>> /\ grabbers = 0))
  /\ [][(mainpc = "args" /\ WantsHelp) =>
          (mainpc' = "exited" /\ out' = <<"usage">> /\ exit' = <<0>>)]_vars

\* C13 witness: main has returned on a command line with a help switch and a
\* list switch, with a device connected.
C13_Witness ==
  /\ mainpc = "exited"
  /\ WantsHelp /\ WantsList
  /\ devices = 1
  /\ out = <<"usage">>
  /\ grabbers = 0

\* the s handler has turned the recording flag on (line 292) and has not yet
\* allocated the session id and created its directory (lines 297-298)
Arming == lpc \in {"s_sid", "s_fid_ld", "s_fid_st", "s_mkdir"}

\* C14: every frame file is written under the directory of the session id
\* allocated by the activation that armed recording, and the directory exists
\* at the write: cloudCallback never passes the test of the recording flag
\* (line 196) between the flag turning on and the new session id being
\* allocated and its directory created, and savePointCloud never builds a
\* name under session id 0 or under a directory that has not been created.
C14_SavedUnderArmedSession ==
  /\ [](cpc = "write" => (c_sid >= 1 /\ Pad4(c_sid) \in dirs))
  /\ [][(cpc = "check" /\ cpc' = "sid") => ~Arming]_vars

\* C14, the name alone: savePointCloud has read session id 0, or an id whose
\* directory does not exist.
C14_DirectoryExists ==
  cpc = "write" => (c_sid >= 1 /\ Pad4(c_sid) \in dirs)

\* C14, the previous session's directory: while the flag is on and the new
\* session id is not allocated yet, no file is written.
C14_NotUnderPreviousSession ==
  [][(cpc = "write" /\ lpc = "s_sid") => files' = files]_vars

\* C15: the frame counter is changed only by savePointCloud, which adds 1
\* after a saved file, and by turning recording off, which resets it to 0;
\* and whenever recording is off, no capture callback is in progress and the
\* s handler is not in progress, the frame counter is 0.
C15_FrameCounterSaveAndOffOnly ==
  /\ [][frame_id_' # frame_id_ =>
          \/ (cpc = "inc_st" /\ cpc' = "idle" /\ frame_id_' = frame_id_ + 1)
          \/ (lpc = "s_reset" /\ lpc' = "spin" /\ frame_id_' = 0)
       ]_vars
  /\ []((~save_stream_ /\ cpc = "idle" /\ key # "s") => frame_id_ = 0)

\* C15, the consequence alone: violated by a reset that falls between the
\* load and the store of the frame_id_++ of line 327.
C15_ZeroWhenOff ==
  (~save_stream_ /\ cpc = "idle" /\ key # "s") => frame_id_ = 0

\* C16: at every key-down of p a last-displayed frame exists, it is the cloud
\* the display holds (not a newer pending one), and the handler writes the
\* one file named from that frame's stamp; a p pressed before the first frame
\* is displayed included.
C16_ManualSaveOfLastDisplayed ==
  /\ []((lpc = "key" /\ key = "p") =>
          (last_cloud_ # NullCloud /\ last_cloud_ = shown))
  /\ [][(lpc = "key" /\ key = "p" /\ lpc' # lpc) =>
          (lpc' = "spin" /\ manual' = manual \cup {shown.id})]_vars

\* C16 without the first-frame case: once a frame has been displayed, p saves
\* the displayed frame and not the pending one.
C16_SavesDisplayedOnceShown ==
  [][(lpc = "key" /\ key = "p" /\ shown # NullCloud) =>
       /\ last_cloud_ = shown
       /\ lpc' # lpc => (lpc' = "spin" /\ manual' = manual \cup {shown.id})
    ]_vars

\* C17: in every reachable state the temporal filter mode is none or
\* average; median is never held, never pushed to the capture source by
\* enableTemporalFiltering and never shown in the overlay.
C17_MedianUnreachable ==
  /\ temporal_filtering_ \in {RealSense_None, RealSense_Average}
  /\ g_filter # <<>> => g_filter[1] \in {RealSense_None, RealSense_Average}
  /\ overlay.temporal # "median"

\* C17 witness: k has been pressed once from none; average is held, pushed
\* and shown.
C17_Witness ==
  /\ lpc = "spin"
  /\ k_before = <<RealSense_None>>
  /\ temporal_filtering_ = RealSense_Average
  /\ g_filter = <<RealSense_Average, window_>>
  /\ overlay.temporal = "average"

\* C18: in every reachable state, from startup on, the (temporal mode,
\* window) pair and the confidence threshold last pushed to the capture
\* source equal the values held in the settings record.
C18_PushedEqualsSettingsFromStartup ==
  /\ g_filter = <<temporal_filtering_, window_>>
  /\ g_threshold = <<threshold_>>

\* C18 as amended: nothing is pushed before the first key press; the pair
\* last pushed, if any, and the threshold last pushed, if any, equal the
\* values held in the settings record and shown in the overlay (once it has
\* been rendered); each w, W, k press pushes the updated pair and each t, T
\* press the updated threshold, exactly once.
C18_PushedEqualsSettingsOncePushed ==
  /\ [](/\ g_filter # <<>> => g_filter = <<temporal_filtering_, window_>>
        /\ g_threshold # <<>> => g_threshold = <<threshold_>>
        /\ overlay # NoOverlay =>
             /\ overlay.threshold = threshold_
             /\ overlay.temporal = TF(temporal_filtering_)
             /\ overlay.window # <<>> => overlay.window = <<window_>>)
  /\ [][(lpc = "key" /\ lpc' = "spin") =>
          /\ key \in {"w", "W", "k"} =>
               (g_filter' = <<temporal_filtering_', window_'>> /\ pushes' = 1)
          /\ key \in {"t", "T"} =>
               (g_threshold' = <<threshold_'>> /\ pushes' = 1)
       ]_vars

\* C18 witness: w, k and t have been pressed; the capture source holds the
\* pair (average, 4) and the threshold 7.
C18_Witness ==
  /\ lpc = "spin"
  /\ g_filter = <<RealSense_Average, InitWindow + 1>>
  /\ g_threshold = <<InitThreshold + 1>>
  /\ window_ = InitWindow + 1 /\ threshold_ = InitThreshold + 1

\* C19: run () leaves its loop only with the display stopped, and once the
\* display is stopped it starts no further iteration body: the next test of
\* line 157 exits.  Then grabber_.stop () ends acquisition and the destructor
\* disconnects the callback.  A callback that starts with the display stopped
\* returns at once: it takes no lock, stores no pending frame and writes no
\* file, recording armed or not.
C19_ShutdownByDisplay ==
  /\ [](/\ lpc \in {"stop", "return", "done"} => stopped
        /\ stopped => lpc \notin {"poll", "lock", "show"}
        /\ lpc \in {"return", "done"} => ~running
        /\ lpc = "done" => (~connected /\ exit = <<0>>))
  /\ [][ /\ (stopped /\ lpc = "test" /\ lpc' # lpc) => lpc' = "stop"
         /\ (lpc = "stop" /\ lpc' # lpc) => (lpc' = "return" /\ ~running')
         /\ (running /\ ~running') => stopped
         /\ (connected /\ ~connected') => (stopped /\ ~running)
         /\ (stopped /\ delivered' # delivered) =>
              /\ cpc' = "idle"
              /\ UNCHANGED <<new_cloud_, latest, lock, files, frame_id_>>
       ]_vars

\* C19 witness: with recording armed the display was closed, a frame was
\* delivered after that and neither stored nor saved, and run () and main
\* have returned.
C19_Witness ==
  /\ lpc = "done"
  /\ stopped /\ ~running /\ ~connected
  /\ save_stream_
  /\ delivered = 1 /\ latest = NullCloud /\ files = <<>>

====
